---- MODULE Spec2Model ----
(***************************************************************************)
(* Model of pants.option.global_options: the global option schema          *)
(* (register_bootstrap_options / register_options), the ExecutionOptions   *)
(* record projected from the bootstrap values, and validate_instance.      *)
(*                                                                         *)
(* Python values are modelled as records [t, i, s, l]: a type tag, an      *)
(* integer payload, a string payload and a sequence payload.  Lists and    *)
(* dicts that can be shared between two holders live in the heap and are     *)
(* held through references (t = "ref", i = address), as Python holds them. *)
(* Option names are kept as their words ("--remote-execution" is           *)
(* <<"--", "remote", "execution">>) so that the flag text and the          *)
(* attribute name of an option are computed from the registered name.      *)
(***************************************************************************)
EXTENDS Integers, Sequences, FiniteSets, TLC

VARIABLES env, pc, ncalls, opts, heap, exec, constructed, outcome, lastOp, nmut

vars == <<env, pc, ncalls, opts, heap, exec, constructed, outcome, lastOp, nmut>>

\* ------------------------------------------------------------------ bounds

\* Largest processor count multiprocessing.cpu_count() reports in the model.
MaxCpu == 2
\* How many in-place list/dict mutations (append, item set) a run performs.
MaxMutations == 1

\* ------------------------------------------------------------ Python values

None == [t |-> "none", i |-> 0, s |-> "", l |-> <<>>]
PyBool(b) == [t |-> "bool", i |-> IF b THEN 1 ELSE 0, s |-> "", l |-> <<>>]
PyInt(n) == [t |-> "int", i |-> n, s |-> "", l |-> <<>>]
\* An int wider than 32 bits, kept as its source expression.
PyBigInt(expr) == [t |-> "int", i |-> 1, s |-> expr, l |-> <<>>]
\* Only integral floats occur in the schema.
PyFloat(n) == [t |-> "float", i |-> n, s |-> "", l |-> <<>>]
PyStr(x) == [t |-> "str", i |-> 0, s |-> x, l |-> <<>>]
\* A string the environment decides (a path, the version), named by its expression.
EnvStr(expr) == [t |-> "str", i |-> 0, s |-> expr, l |-> <<>>]
PyList(xs) == [t |-> "list", i |-> 0, s |-> "", l |-> xs]
\* A dict, as its "key=value" items.
PyDict(xs) == [t |-> "dict", i |-> 0, s |-> "", l |-> xs]
PyEnum(cls, member) == [t |-> "enum", i |-> 0, s |-> member, l |-> <<cls>>]
Ref(a) == [t |-> "ref", i |-> a, s |-> "", l |-> <<>>]

Range(f) == {f[x] : x \in DOMAIN f}

\* The object a value denotes: a reference is followed into the heap h.
Deref(v, h) == IF v.t = "ref" THEN h[v.i] ELSE v

\* Python truth value (bool(v)), as "not x" and "x and y" use it.
Truthy(v, h) ==
    LET x == Deref(v, h) IN
    CASE x.t = "none" -> FALSE
      [] x.t \in {"bool", "int", "float"} -> x.i # 0
      [] x.t = "str" -> x.s # ""
      [] x.t \in {"list", "dict"} -> x.l # <<>>
      [] OTHER -> TRUE

\* Python ==: numbers compare by value (True == 1 == 1.0), lists by their
\* items in order, dicts by their items whatever the insertion order.
PyEq(a, b, h) ==
    LET x == Deref(a, h)
        y == Deref(b, h)
        Num == {"bool", "int", "float"}
    IN  IF x.t \in Num /\ y.t \in Num THEN x.i = y.i /\ x.s = y.s
        ELSE IF x.t = "dict" /\ y.t = "dict"
        THEN Len(x.l) = Len(y.l) /\ Range(x.l) = Range(y.l)
        ELSE x = y

\* -------------------------------------------------------------- environment

\* What the defaults read from the process environment: the processor count,
\* whether stdout/stderr are terminals, and the environment variables.
Envs ==
    { [cpu_count |-> MaxCpu, stdout_isatty |-> TRUE, stderr_isatty |-> TRUE, environ |-> {}],
      [cpu_count |-> 1, stdout_isatty |-> FALSE, stderr_isatty |-> FALSE, environ |-> {"CI"}] }

\* ------------------------------------------------------- ExecutionOptions

\* The fields of the dataclass, in declaration order.
ExecutionOptionsFields ==
    << "remote_execution",
       "remote_store_server",
       "remote_store_thread_count",
       "remote_execution_server",
       "remote_store_chunk_bytes",
       "remote_store_chunk_upload_timeout_seconds",
       "remote_store_rpc_retries",
       "remote_store_connection_limit",
       "process_execution_local_parallelism",
       "process_execution_remote_parallelism",
       "process_execution_cleanup_local_dirs",
       "process_execution_speculation_delay",
       "process_execution_speculation_strategy",
       "process_execution_use_local_cache",
       "remote_execution_process_cache_namespace",
       "remote_instance_name",
       "remote_ca_certs_path",
       "remote_oauth_bearer_token_path",
       "remote_execution_extra_platform_properties",
       "remote_execution_headers",
       "remote_execution_overall_deadline_secs",
       "process_execution_local_enable_nailgun" >>

FieldNames == Range(ExecutionOptionsFields)

\* from_bootstrap_options with a copy-and-paste slip: the thread count is read
\* from the connection limit.
from_bootstrap_options_slip(bootstrap_options) ==
    [ f \in FieldNames |->
        IF f = "remote_store_thread_count"
        THEN bootstrap_options.remote_store_connection_limit
        ELSE bootstrap_options[f] ]

\* from_bootstrap_options reading the nailgun switch from --loop, an option
\* register_options alone registers.
from_bootstrap_options_reads_full(bootstrap_options) ==
    [ f \in FieldNames |->
        IF f = "process_execution_local_enable_nailgun"
        THEN bootstrap_options.loop
        ELSE bootstrap_options[f] ]

\* from_bootstrap_options with a cross-option check of its own: without an
\* execution server the record has remote execution switched off.
from_bootstrap_options_checked(bootstrap_options) ==
    [ f \in FieldNames |->
        IF /\ f = "remote_execution"
           /\ bootstrap_options.remote_execution_server \in {None, PyStr("")}
        THEN PyBool(FALSE)
        ELSE bootstrap_options[f] ]

\* ExecutionOptions.from_bootstrap_options: one keyword argument per field,
\* each read from the attribute of the bootstrap values written in the source.
from_bootstrap_options(bootstrap_options) ==
    [ remote_execution |-> bootstrap_options.remote_execution,
      remote_store_server |-> bootstrap_options.remote_store_server,
      remote_execution_server |-> bootstrap_options.remote_execution_server,
      remote_store_thread_count |-> bootstrap_options.remote_store_thread_count,
      remote_store_chunk_bytes |-> bootstrap_options.remote_store_chunk_bytes,
      remote_store_chunk_upload_timeout_seconds |-> bootstrap_options.remote_store_chunk_upload_timeout_seconds,
      remote_store_rpc_retries |-> bootstrap_options.remote_store_rpc_retries,
      remote_store_connection_limit |-> bootstrap_options.remote_store_connection_limit,
      process_execution_local_parallelism |-> bootstrap_options.process_execution_local_parallelism,
      process_execution_remote_parallelism |-> bootstrap_options.process_execution_remote_parallelism,
      process_execution_cleanup_local_dirs |-> bootstrap_options.process_execution_cleanup_local_dirs,
      process_execution_speculation_delay |-> bootstrap_options.process_execution_speculation_delay,
      process_execution_speculation_strategy |-> bootstrap_options.process_execution_speculation_strategy,
      process_execution_use_local_cache |-> bootstrap_options.process_execution_use_local_cache,
      remote_execution_process_cache_namespace |-> bootstrap_options.remote_execution_process_cache_namespace,
      remote_instance_name |-> bootstrap_options.remote_instance_name,
      remote_ca_certs_path |-> bootstrap_options.remote_ca_certs_path,
      remote_oauth_bearer_token_path |-> bootstrap_options.remote_oauth_bearer_token_path,
      remote_execution_extra_platform_properties |-> bootstrap_options.remote_execution_extra_platform_properties,
      remote_execution_headers |-> bootstrap_options.remote_execution_headers,
      remote_execution_overall_deadline_secs |-> bootstrap_options.remote_execution_overall_deadline_secs,
      process_execution_local_enable_nailgun |-> bootstrap_options.process_execution_local_enable_nailgun ]

\* DEFAULT_EXECUTION_OPTIONS drifted from the schema: the local cache is off in
\* the constant while --process-execution-use-local-cache still defaults to True.
DEFAULT_EXECUTION_OPTIONS_drifted ==
    [ remote_execution |-> PyBool(FALSE),
      remote_store_server |-> PyList(<<>>),
      remote_store_thread_count |-> PyInt(1),
      remote_execution_server |-> None,
      remote_store_chunk_bytes |-> PyInt(1024 * 1024),
      remote_store_chunk_upload_timeout_seconds |-> PyInt(60),
      remote_store_rpc_retries |-> PyInt(2),
      remote_store_connection_limit |-> PyInt(5),
      process_execution_local_parallelism |-> PyInt(env.cpu_count),
      process_execution_remote_parallelism |-> PyInt(128),
      process_execution_cleanup_local_dirs |-> PyBool(TRUE),
      process_execution_speculation_delay |-> PyInt(1),
      process_execution_speculation_strategy |-> PyStr("none"),
      process_execution_use_local_cache |-> PyBool(FALSE),
      remote_execution_process_cache_namespace |-> None,
      remote_instance_name |-> None,
      remote_ca_certs_path |-> None,
      remote_oauth_bearer_token_path |-> None,
      remote_execution_extra_platform_properties |-> PyList(<<>>),
      remote_execution_headers |-> PyDict(<<>>),
      remote_execution_overall_deadline_secs |-> PyInt(60 * 60),
      process_execution_local_enable_nailgun |-> PyBool(FALSE) ]

\* The module-level default record, evaluated when the module is imported.
DEFAULT_EXECUTION_OPTIONS ==
    [ remote_execution |-> PyBool(FALSE),
      remote_store_server |-> PyList(<<>>),
      remote_store_thread_count |-> PyInt(1),
      remote_execution_server |-> None,
      remote_store_chunk_bytes |-> PyInt(1024 * 1024),
      remote_store_chunk_upload_timeout_seconds |-> PyInt(60),
      remote_store_rpc_retries |-> PyInt(2),
      remote_store_connection_limit |-> PyInt(5),
      process_execution_local_parallelism |-> PyInt(env.cpu_count),
      process_execution_remote_parallelism |-> PyInt(128),
      process_execution_cleanup_local_dirs |-> PyBool(TRUE),
      process_execution_speculation_delay |-> PyInt(1),
      process_execution_speculation_strategy |-> PyStr("none"),
      process_execution_use_local_cache |-> PyBool(TRUE),
      remote_execution_process_cache_namespace |-> None,
      remote_instance_name |-> None,
      remote_ca_certs_path |-> None,
      remote_oauth_bearer_token_path |-> None,
      remote_execution_extra_platform_properties |-> PyList(<<>>),
      remote_execution_headers |-> PyDict(<<>>),
      remote_execution_overall_deadline_secs |-> PyInt(60 * 60),
      process_execution_local_enable_nailgun |-> PyBool(FALSE) ]

\* ------------------------------------------------------------ registration

\* One register(*names, **kwargs) call: the names, the keywords given, and the
\* values of the keywords the schema rules read ("" / <<>> / None when the keyword
\* is not given; advanced and daemon default to FALSE, fingerprint to TRUE).
Call(names, given, type, default, member_type, choices, advanced, daemon, fingerprint, removal_version) ==
    [ names |-> names, given |-> given, type |-> type, default |-> default,
      member_type |-> member_type, choices |-> choices, advanced |-> advanced,
      daemon |-> daemon, fingerprint |-> fingerprint, removal_version |-> removal_version ]

default_distdir_name == "dist"
default_rel_distdir == "/" \o default_distdir_name \o "/"

\* The register calls register_bootstrap_options makes, in source order.
register_bootstrap_options ==
  <<
    \* lines 166-173
    Call(<< <<"-", "l">>, <<"--", "level">> >>,
         {"default", "help", "type"},
         "LogLevel", PyEnum("LogLevel", "INFO"), "", <<>>, FALSE, FALSE, TRUE, ""),
    \* lines 174-181
    Call(<< <<"--", "show", "log", "target">> >>,
         {"advanced", "default", "help", "type"},
         "bool", PyBool(FALSE), "", <<>>, TRUE, FALSE, TRUE, ""),
    \* lines 183-194
    Call(<< <<"--", "log", "levels", "by", "target">> >>,
         {"advanced", "default", "help", "type"},
         "dict", PyDict(<<>>), "", <<>>, TRUE, FALSE, TRUE, ""),
    \* lines 196-203
    Call(<< <<"--", "log", "show", "rust", "3rdparty">> >>,
         {"advanced", "default", "help", "type"},
         "bool", PyBool(FALSE), "", <<>>, TRUE, FALSE, TRUE, ""),
    \* lines 205-213
    Call(<< <<"--", "colors">> >>,
         {"default", "help", "type"},
         "bool", PyBool(env.stdout_isatty), "", <<>>, FALSE, FALSE, TRUE, ""),
    \* lines 216-227
    Call(<< <<"--", "ignore", "pants", "warnings">> >>,
         {"advanced", "default", "help", "member_type", "type"},
         "list", PyList(<<>>), "str", <<>>, TRUE, FALSE, TRUE, ""),
    \* lines 229-243
    Call(<< <<"--", "pants", "version">> >>,
         {"advanced", "daemon", "default", "help"},
         "", EnvStr("pants_version()"), "", <<>>, TRUE, TRUE, TRUE, ""),
    \* lines 244-250
    Call(<< <<"--", "pants", "bin", "name">> >>,
         {"advanced", "default", "help"},
         "", PyStr("./pants"), "", <<>>, TRUE, FALSE, TRUE, ""),
    \* lines 251-258
    Call(<< <<"--", "plugins">> >>,
         {"advanced", "help", "type"},
         "list", None, "", <<>>, TRUE, FALSE, TRUE, ""),
    \* lines 259-265
    Call(<< <<"--", "plugins", "force", "resolve">> >>,
         {"advanced", "default", "help", "type"},
         "bool", PyBool(FALSE), "", <<>>, TRUE, FALSE, TRUE, ""),
    \* lines 266-271
    Call(<< <<"--", "plugin", "cache", "dir">> >>,
         {"advanced", "default", "help"},
         "", EnvStr("get_pants_cachedir()/plugins"), "", <<>>, TRUE, FALSE, TRUE, ""),
    \* lines 272-282
    Call(<< <<"--", "backend", "packages">> >>,
         {"advanced", "default", "help", "type"},
         "list", PyList(<<>>), "", <<>>, TRUE, FALSE, TRUE, ""),
    \* lines 284-290
    Call(<< <<"--", "pants", "bootstrapdir">> >>,
         {"advanced", "default", "help", "metavar"},
         "", EnvStr("get_pants_cachedir()"), "", <<>>, TRUE, FALSE, TRUE, ""),
    \* lines 291-297
    Call(<< <<"--", "pants", "configdir">> >>,
         {"advanced", "default", "help", "metavar"},
         "", EnvStr("get_pants_configdir()"), "", <<>>, TRUE, FALSE, TRUE, ""),
    \* lines 298-305
    Call(<< <<"--", "pants", "workdir">> >>,
         {"advanced", "daemon", "default", "help", "metavar"},
         "", EnvStr("get_buildroot()/.pants.d"), "", <<>>, TRUE, TRUE, TRUE, ""),
    \* lines 306-315
    Call(<< <<"--", "pants", "physical", "workdir", "base">> >>,
         {"advanced", "daemon", "default", "help", "metavar"},
         "", None, "", <<>>, TRUE, TRUE, TRUE, ""),
    \* lines 316-322
    Call(<< <<"--", "pants", "supportdir">> >>,
         {"advanced", "default", "help", "metavar"},
         "", EnvStr("get_buildroot()/build-support"), "", <<>>, TRUE, FALSE, TRUE, ""),
    \* lines 323-329
    Call(<< <<"--", "pants", "distdir">> >>,
         {"advanced", "default", "help", "metavar"},
         "", EnvStr("get_buildroot()/dist"), "", <<>>, TRUE, FALSE, TRUE, ""),
    \* lines 331-340
    Call(<< <<"--", "pants", "distdir", "legacy", "paths">> >>,
         {"advanced", "default", "help", "type"},
         "bool", PyBool(TRUE), "", <<>>, TRUE, FALSE, TRUE, ""),
    \* lines 341-349
    Call(<< <<"--", "pants", "subprocessdir">> >>,
         {"advanced", "daemon", "default", "help"},
         "", EnvStr("get_buildroot()/.pids"), "", <<>>, TRUE, TRUE, TRUE, ""),
    \* lines 350-359
    Call(<< <<"--", "pants", "config", "files">> >>,
         {"advanced", "default", "fingerprint", "help", "type"},
         "list", PyList(<<"get_default_pants_config_file()">>), "", <<>>, TRUE, FALSE, FALSE, ""),
    \* lines 360-368
    Call(<< <<"--", "pantsrc">> >>,
         {"advanced", "default", "fingerprint", "help", "type"},
         "bool", PyBool(TRUE), "", <<>>, TRUE, FALSE, FALSE, ""),
    \* lines 369-381
    Call(<< <<"--", "pantsrc", "files">> >>,
         {"advanced", "default", "fingerprint", "help", "metavar", "type"},
         "list", PyList(<<"/etc/pantsrc", "~/.pants.rc">>), "", <<>>, TRUE, FALSE, FALSE, ""),
    \* lines 382-387
    Call(<< <<"--", "pythonpath">> >>,
         {"advanced", "help", "type"},
         "list", None, "", <<>>, TRUE, FALSE, TRUE, ""),
    \* lines 388-395
    Call(<< <<"--", "spec", "files">> >>,
         {"fingerprint", "help", "type"},
         "list", None, "", <<>>, FALSE, FALSE, FALSE, ""),
    \* lines 396-404
    Call(<< <<"--", "spec", "file">> >>,
         {"fingerprint", "help", "removal_hint", "removal_version", "type"},
         "list", None, "", <<>>, FALSE, FALSE, FALSE, "2.1.0.dev0"),
    \* lines 405-411
    Call(<< <<"--", "verify", "config">> >>,
         {"advanced", "default", "help", "type"},
         "bool", PyBool(TRUE), "", <<>>, TRUE, FALSE, TRUE, ""),
    \* lines 413-425
    Call(<< <<"--", "pants", "ignore">> >>,
         {"advanced", "default", "help", "member_type", "type"},
         "list", PyList(<<".*/", default_rel_distdir>>), "str", <<>>, TRUE, FALSE, TRUE, ""),
    \* lines 426-434
    Call(<< <<"--", "pants", "ignore", "use", "gitignore">> >>,
         {"advanced", "default", "help", "type"},
         "bool", PyBool(TRUE), "", <<>>, TRUE, FALSE, TRUE, ""),
    \* lines 438-445
    Call(<< <<"-", "d">>, <<"--", "logdir">> >>,
         {"advanced", "daemon", "help", "metavar"},
         "", None, "", <<>>, TRUE, TRUE, TRUE, ""),
    \* lines 447-458
    Call(<< <<"--", "pantsd">> >>,
         {"advanced", "daemon", "default", "help", "type"},
         "bool", PyBool(TRUE), "", <<>>, TRUE, TRUE, TRUE, ""),
    \* lines 463-471
    Call(<< <<"--", "concurrent">> >>,
         {"advanced", "default", "help", "type"},
         "bool", PyBool(FALSE), "", <<>>, TRUE, FALSE, TRUE, ""),
    \* lines 476-486
    Call(<< <<"--", "pantsd", "timeout", "when", "multiple", "invocations">> >>,
         {"advanced", "default", "help", "type"},
         "float", PyFloat(60), "", <<>>, TRUE, FALSE, TRUE, ""),
    \* lines 487-496
    Call(<< <<"--", "pantsd", "max", "memory", "usage">> >>,
         {"advanced", "default", "help", "type"},
         "int", PyInt(2^30), "", <<>>, TRUE, FALSE, TRUE, ""),
    \* lines 499-506
    Call(<< <<"--", "native", "engine", "visualize", "to">> >>,
         {"advanced", "default", "help", "type"},
         "dir_option", None, "", <<>>, TRUE, FALSE, TRUE, ""),
    \* lines 507-513
    Call(<< <<"--", "print", "stacktrace">> >>,
         {"advanced", "default", "help", "type"},
         "bool", PyBool(FALSE), "", <<>>, TRUE, FALSE, TRUE, ""),
    \* lines 514-522
    Call(<< <<"--", "print", "exception", "stacktrace">> >>,
         {"advanced", "default", "help", "removal_hint", "removal_version", "type"},
         "bool", PyBool(FALSE), "", <<>>, TRUE, FALSE, TRUE, "2.1.0.dev0"),
    \* lines 525-532
    Call(<< <<"--", "pantsd", "pailgun", "port">> >>,
         {"advanced", "daemon", "default", "help", "type"},
         "int", PyInt(0), "", <<>>, TRUE, TRUE, TRUE, ""),
    \* lines 534-541
    Call(<< <<"--", "pantsd", "pailgun", "quit", "timeout">> >>,
         {"advanced", "default", "help", "type"},
         "float", PyFloat(5), "", <<>>, TRUE, FALSE, TRUE, ""),
    \* lines 542-548
    Call(<< <<"--", "pantsd", "log", "dir">> >>,
         {"advanced", "daemon", "default", "help"},
         "", None, "", <<>>, TRUE, TRUE, TRUE, ""),
    \* lines 549-557
    Call(<< <<"--", "pantsd", "invalidation", "globs">> >>,
         {"advanced", "daemon", "default", "help", "type"},
         "list", PyList(<<>>), "", <<>>, TRUE, TRUE, TRUE, ""),
    \* lines 563-574
    Call(<< <<"--", "local", "store", "dir">> >>,
         {"advanced", "default", "help"},
         "", EnvStr("get_pants_cachedir()/lmdb_store"), "", <<>>, TRUE, FALSE, TRUE, ""),
    \* lines 575-580
    Call(<< <<"--", "local", "execution", "root", "dir">> >>,
         {"advanced", "default", "help"},
         "", EnvStr("tempfile.gettempdir()"), "", <<>>, TRUE, FALSE, TRUE, ""),
    \* lines 581-589
    Call(<< <<"--", "named", "caches", "dir">> >>,
         {"advanced", "default", "help"},
         "", EnvStr("get_pants_cachedir()/named_caches"), "", <<>>, TRUE, FALSE, TRUE, ""),
    \* lines 590-597
    Call(<< <<"--", "ca", "certs", "path">> >>,
         {"advanced", "default", "help", "type"},
         "str", None, "", <<>>, TRUE, FALSE, TRUE, ""),
    \* lines 598-604
    Call(<< <<"--", "remote", "execution">> >>,
         {"advanced", "default", "help", "type"},
         "bool", DEFAULT_EXECUTION_OPTIONS.remote_execution, "", <<>>, TRUE, FALSE, TRUE, ""),
    \* lines 605-611
    Call(<< <<"--", "remote", "store", "server">> >>,
         {"advanced", "default", "help", "type"},
         "list", PyList(<<>>), "", <<>>, TRUE, FALSE, TRUE, ""),
    \* lines 613-619
    Call(<< <<"--", "remote", "store", "thread", "count">> >>,
         {"advanced", "default", "help", "type"},
         "int", DEFAULT_EXECUTION_OPTIONS.remote_store_thread_count, "", <<>>, TRUE, FALSE, TRUE, ""),
    \* lines 620-624
    Call(<< <<"--", "remote", "execution", "server">> >>,
         {"advanced", "help"},
         "", None, "", <<>>, TRUE, FALSE, TRUE, ""),
    \* lines 625-631
    Call(<< <<"--", "remote", "store", "chunk", "bytes">> >>,
         {"advanced", "default", "help", "type"},
         "int", DEFAULT_EXECUTION_OPTIONS.remote_store_chunk_bytes, "", <<>>, TRUE, FALSE, TRUE, ""),
    \* lines 632-638
    Call(<< <<"--", "remote", "store", "chunk", "upload", "timeout", "seconds">> >>,
         {"advanced", "default", "help", "type"},
         "int", DEFAULT_EXECUTION_OPTIONS.remote_store_chunk_upload_timeout_seconds, "", <<>>, TRUE, FALSE, TRUE, ""),
    \* lines 639-645
    Call(<< <<"--", "remote", "store", "rpc", "retries">> >>,
         {"advanced", "default", "help", "type"},
         "int", DEFAULT_EXECUTION_OPTIONS.remote_store_rpc_retries, "", <<>>, TRUE, FALSE, TRUE, ""),
    \* lines 646-652
    Call(<< <<"--", "remote", "store", "connection", "limit">> >>,
         {"advanced", "default", "help", "type"},
         "int", DEFAULT_EXECUTION_OPTIONS.remote_store_connection_limit, "", <<>>, TRUE, FALSE, TRUE, ""),
    \* lines 653-660
    Call(<< <<"--", "remote", "execution", "process", "cache", "namespace">> >>,
         {"advanced", "help"},
         "", None, "", <<>>, TRUE, FALSE, TRUE, ""),
    \* lines 661-666
    Call(<< <<"--", "remote", "instance", "name">> >>,
         {"advanced", "help"},
         "", None, "", <<>>, TRUE, FALSE, TRUE, ""),
    \* lines 667-673
    Call(<< <<"--", "remote", "ca", "certs", "path">> >>,
         {"advanced", "help"},
         "", None, "", <<>>, TRUE, FALSE, TRUE, ""),
    \* lines 674-680
    Call(<< <<"--", "remote", "oauth", "bearer", "token", "path">> >>,
         {"advanced", "help"},
         "", None, "", <<>>, TRUE, FALSE, TRUE, ""),
    \* lines 681-689
    Call(<< <<"--", "remote", "execution", "extra", "platform", "properties">> >>,
         {"advanced", "default", "help", "type"},
         "list", PyList(<<>>), "", <<>>, TRUE, FALSE, TRUE, ""),
    \* lines 690-697
    Call(<< <<"--", "remote", "execution", "headers">> >>,
         {"advanced", "default", "help", "type"},
         "dict", PyDict(<<>>), "", <<>>, TRUE, FALSE, TRUE, ""),
    \* lines 698-704
    Call(<< <<"--", "remote", "execution", "overall", "deadline", "secs">> >>,
         {"advanced", "default", "help", "type"},
         "int", DEFAULT_EXECUTION_OPTIONS.remote_execution_overall_deadline_secs, "", <<>>, TRUE, FALSE, TRUE, ""),
    \* lines 705-711
    Call(<< <<"--", "process", "execution", "local", "parallelism">> >>,
         {"advanced", "default", "help", "type"},
         "int", DEFAULT_EXECUTION_OPTIONS.process_execution_local_parallelism, "", <<>>, TRUE, FALSE, TRUE, ""),
    \* lines 712-718
    Call(<< <<"--", "process", "execution", "remote", "parallelism">> >>,
         {"advanced", "default", "help", "type"},
         "int", DEFAULT_EXECUTION_OPTIONS.process_execution_remote_parallelism, "", <<>>, TRUE, FALSE, TRUE, ""),
    \* lines 719-726
    Call(<< <<"--", "process", "execution", "cleanup", "local", "dirs">> >>,
         {"advanced", "default", "help", "type"},
         "bool", PyBool(TRUE), "", <<>>, TRUE, FALSE, TRUE, ""),
    \* lines 727-734
    Call(<< <<"--", "process", "execution", "speculation", "delay">> >>,
         {"advanced", "default", "help", "type"},
         "float", DEFAULT_EXECUTION_OPTIONS.process_execution_speculation_delay, "", <<>>, TRUE, FALSE, TRUE, ""),
    \* lines 735-747
    Call(<< <<"--", "process", "execution", "speculation", "strategy">> >>,
         {"advanced", "choices", "default", "help"},
         "", DEFAULT_EXECUTION_OPTIONS.process_execution_speculation_strategy, "", <<"remote_first", "local_first", "none">>, TRUE, FALSE, TRUE, ""),
    \* lines 748-754
    Call(<< <<"--", "process", "execution", "use", "local", "cache">> >>,
         {"advanced", "default", "help", "type"},
         "bool", PyBool(TRUE), "", <<>>, TRUE, FALSE, TRUE, ""),
    \* lines 755-761
    Call(<< <<"--", "process", "execution", "local", "enable", "nailgun">> >>,
         {"advanced", "default", "help", "type"},
         "bool", DEFAULT_EXECUTION_OPTIONS.process_execution_local_enable_nailgun, "", <<>>, TRUE, FALSE, TRUE, "")
  >>

\* The register calls register_options makes itself, after the bootstrap ones.
full_option_calls ==
  <<
    \* lines 771-778
    Call(<< <<"--", "dynamic", "ui">> >>,
         {"default", "help", "type"},
         "bool", PyBool(("CI" \notin env.environ) /\ env.stderr_isatty), "", <<>>, FALSE, FALSE, TRUE, ""),
    \* lines 780-788
    Call(<< <<"--", "tag">> >>,
         {"help", "metavar", "type"},
         "list", None, "", <<>>, FALSE, FALSE, TRUE, ""),
    \* lines 789-795
    Call(<< <<"--", "exclude", "target", "regexp">> >>,
         {"default", "help", "metavar", "type"},
         "list", PyList(<<>>), "", <<>>, FALSE, FALSE, TRUE, ""),
    \* lines 797-807
    Call(<< <<"--", "build", "patterns">> >>,
         {"advanced", "default", "help", "type"},
         "list", PyList(<<"BUILD", "BUILD.*">>), "", <<>>, TRUE, FALSE, TRUE, ""),
    \* lines 808-818
    Call(<< <<"--", "build", "ignore">> >>,
         {"advanced", "default", "help", "type"},
         "list", PyList(<<>>), "", <<>>, TRUE, FALSE, TRUE, ""),
    \* lines 819-828
    Call(<< <<"--", "build", "file", "prelude", "globs">> >>,
         {"advanced", "default", "help", "type"},
         "list", PyList(<<>>), "", <<>>, TRUE, FALSE, TRUE, ""),
    \* lines 829-836
    Call(<< <<"--", "subproject", "roots">> >>,
         {"advanced", "default", "help", "type"},
         "list", PyList(<<>>), "", <<>>, TRUE, FALSE, TRUE, ""),
    \* lines 838-846
    Call(<< <<"--", "files", "not", "found", "behavior">> >>,
         {"advanced", "default", "help", "type"},
         "FilesNotFoundBehavior", PyEnum("FilesNotFoundBehavior", "warn"), "", <<>>, TRUE, FALSE, TRUE, ""),
    \* lines 847-856
    Call(<< <<"--", "owners", "not", "found", "behavior">> >>,
         {"advanced", "default", "help", "type"},
         "OwnersNotFoundBehavior", PyEnum("OwnersNotFoundBehavior", "error"), "", <<>>, TRUE, FALSE, TRUE, ""),
    \* lines 859-863
    Call(<< <<"--", "loop">> >>,
         {"help", "type"},
         "bool", None, "", <<>>, FALSE, FALSE, TRUE, ""),
    \* lines 864-870
    Call(<< <<"--", "loop", "max">> >>,
         {"advanced", "default", "help", "type"},
         "int", PyBigInt("2 ** 32"), "", <<>>, TRUE, FALSE, TRUE, ""),
    \* lines 872-879
    Call(<< <<"--", "lock">> >>,
         {"advanced", "default", "help", "type"},
         "bool", PyBool(TRUE), "", <<>>, TRUE, FALSE, TRUE, ""),
    \* lines 881-887
    Call(<< <<"--", "streaming", "workunits", "report", "interval">> >>,
         {"advanced", "default", "help", "type"},
         "float", PyInt(10), "", <<>>, TRUE, FALSE, TRUE, ""),
    \* lines 888-897
    Call(<< <<"--", "streaming", "workunits", "handlers">> >>,
         {"advanced", "default", "help", "member_type", "type"},
         "list", PyList(<<>>), "str", <<>>, TRUE, FALSE, TRUE, "")
  >>

\* register_options calling register_bootstrap_options last instead of first.
register_options_bootstrap_last == full_option_calls \o register_bootstrap_options

\* register_options with one more option whose short alias, -l, is already the
\* alias of --level.
register_options_alias_reused ==
    register_bootstrap_options \o full_option_calls \o
    << Call(<< <<"-", "l">>, <<"--", "lock", "timeout">> >>,
            {"default", "help", "type"},
            "int", PyInt(0), "", <<>>, FALSE, FALSE, TRUE, "") >>

\* register_options with one more option that passes member_type without
\* declaring type=list.
register_options_member_type_without_list ==
    register_bootstrap_options \o full_option_calls \o
    << Call(<< <<"--", "lock", "owners">> >>,
            {"help", "member_type"},
            "", None, "str", <<>>, FALSE, FALSE, TRUE, "") >>

\* register_options: it calls register_bootstrap_options first, then registers
\* its own options.
register_options == register_bootstrap_options \o full_option_calls

RECURSIVE Join(_, _)
\* sep.join(words)
Join(words, sep) ==
    IF words = <<>> THEN ""
    ELSE IF Len(words) = 1 THEN words[1]
    ELSE words[1] \o sep \o Join(Tail(words), sep)

\* An option name as it is written on the command line and in messages.
Flag(name) == name[1] \o Join(Tail(name), "-")

\* The attribute under which the resolved value of an option is read: its first
\* long name without the leading dashes, with "_" for "-".
Dest(call) ==
    LET long == SelectSeq(call.names, LAMBDA n : n[1] = "--")
    IN  Join(Tail(long[1]), "_")

\* The call, among a sequence of calls, that declares attribute d.
CallOf(calls, d) == CHOOSE c \in Range(calls) : Dest(c) = d

\* The command-line flag of the option read as attribute d.
FlagOf(d) ==
    LET c == CallOf(register_options, d)
    IN  Flag(SelectSeq(c.names, LAMBDA n : n[1] = "--")[1])

\* All names (long names and short aliases) the calls of a sequence carry.
NamesOf(calls) == UNION {Range(c.names) : c \in Range(calls)}

\* The registrar: a name that is already registered in the scope is a schema
\* error, fatal at startup.
IsDuplicate(calls, call) ==
    \/ Range(call.names) \cap NamesOf(calls) # {}
    \/ Cardinality(Range(call.names)) # Len(call.names)

\* The declared default of an option; None when the call gives none.
DefaultOf(call) == IF "default" \in call.given THEN call.default ELSE None

\* The default that the help text of --process-execution-speculation-strategy
\* names: "local_first (default)".
speculation_strategy_help_default == "local_first"

\* ------------------------------------------------------------------- enums

\* An Enum class is its members in declaration order, each a name and a value.
Member(name, value) == [name |-> name, value |-> value]

GlobMatchErrorBehavior ==
    << Member("ignore", "ignore"), Member("warn", "warn"), Member("error", "error") >>

\* FilesNotFoundBehavior without its warn member.
FilesNotFoundBehavior_error_only ==
    << Member("error", "error") >>

\* FilesNotFoundBehavior with a third member.
FilesNotFoundBehavior_with_ignore ==
    << Member("ignore", "ignore"), Member("warn", "warn"), Member("error", "error") >>

FilesNotFoundBehavior ==
    << Member("warn", "warn"), Member("error", "error") >>

OwnersNotFoundBehavior ==
    << Member("ignore", "ignore"), Member("warn", "warn"), Member("error", "error") >>

\* pants.util.logging.LogLevel, as the help text of --level lists its levels.
LogLevel ==
    << Member("ERROR", "error"), Member("WARN", "warn"), Member("INFO", "info"),
       Member("DEBUG", "debug"), Member("TRACE", "trace") >>

BehaviorEnums == {"GlobMatchErrorBehavior", "FilesNotFoundBehavior", "OwnersNotFoundBehavior"}

EnumClass(cls) ==
    CASE cls = "GlobMatchErrorBehavior" -> GlobMatchErrorBehavior
      [] cls = "FilesNotFoundBehavior"  -> FilesNotFoundBehavior
      [] cls = "OwnersNotFoundBehavior" -> OwnersNotFoundBehavior
      [] cls = "LogLevel"               -> LogLevel

\* The members of a class, as Python values.
MembersOf(cls) == {PyEnum(cls, m.name) : m \in Range(EnumClass(cls))}

\* member.value
ValueOf(member) ==
    (CHOOSE m \in Range(EnumClass(member.l[1])) : m.name = member.s).value

\* cls(value): the member of the class that has the value; a ValueError when
\* no member has it.  The comparison is exact, case included.
EnumCall(cls, value) ==
    LET hits == {m \in Range(EnumClass(cls)) : m.value = value}
    IN  IF hits = {}
        THEN [raised |-> "ValueError", member |-> None]
        ELSE [raised |-> "", member |-> PyEnum(cls, (CHOOSE m \in hits : TRUE).name)]

\* A conversion that reports every missing file as an error.
FilesNotFoundBehavior_to_glob_always_error(self) ==
    [raised |-> "", member |-> PyEnum("GlobMatchErrorBehavior", "error")]

\* FilesNotFoundBehavior.to_glob_match_error_behavior(self)
FilesNotFoundBehavior_to_glob_match_error_behavior(self) ==
    EnumCall("GlobMatchErrorBehavior", ValueOf(self))

\* A conversion that turns ignore into warn.
OwnersNotFoundBehavior_to_glob_ignore_as_warn(self) ==
    IF ValueOf(self) = "ignore"
    THEN [raised |-> "", member |-> PyEnum("GlobMatchErrorBehavior", "warn")]
    ELSE EnumCall("GlobMatchErrorBehavior", ValueOf(self))

\* OwnersNotFoundBehavior.to_glob_match_error_behavior(self)
OwnersNotFoundBehavior_to_glob_match_error_behavior(self) ==
    EnumCall("GlobMatchErrorBehavior", ValueOf(self))

\* member.to_glob_match_error_behavior(), dispatched on the member's class; a
\* class that does not define the method (GlobMatchErrorBehavior) gives an
\* AttributeError.
to_glob_match_error_behavior(self) ==
    IF self.l[1] = "FilesNotFoundBehavior"
    THEN FilesNotFoundBehavior_to_glob_match_error_behavior(self)
    ELSE IF self.l[1] = "OwnersNotFoundBehavior"
    THEN OwnersNotFoundBehavior_to_glob_match_error_behavior(self)
    ELSE [raised |-> "AttributeError", member |-> None]

\* The strings a member is constructed from: every declared value, the same
\* in another case, the empty string and a string no class declares.
EnumInputs == {"ignore", "warn", "error", "WARN", "Error", "", "fail"}

\* ------------------------------------------------------------- validation

\* An OptionsError; the message is kept as its pieces, each flag it names (the
\* text the source puts between backquotes) being a piece of its own.
OptionsError(message) == [kind |-> "OptionsError", message |-> message]

Mentions(error, flag) == \E k \in DOMAIN error.message : error.message[k] = flag

\* bool(v) of a value the option bag or a record holds.
IsSet(v) == Truthy(v, heap)

\* validate_instance without its first check.
validate_instance_no_rule1(o) ==
    IF IsSet(o.remote_execution_server) /\ ~IsSet(o.remote_store_server)
    THEN [ evaluated |-> <<"rule2">>,
           errors |-> << OptionsError(<< "The ", "--remote-execution-server",
                                         " option requires also setting ",
                                         "--remote-store-server",
                                         ". Often these have the same value." >>) >> ]
    ELSE [ evaluated |-> <<"rule2">>, errors |-> <<>> ]

\* validate_instance asking for a store server only when remote execution is on.
validate_instance_rule2_gated(o) ==
    IF IsSet(o.remote_execution) /\ ~IsSet(o.remote_execution_server)
    THEN [ evaluated |-> <<"rule1">>,
           errors |-> << OptionsError(<< "The ", "--remote-execution",
                                         " option requires also setting ",
                                         "--remote-execution-server",
                                         " to work properly." >>) >> ]
    ELSE IF IsSet(o.remote_execution) /\ IsSet(o.remote_execution_server)
            /\ ~IsSet(o.remote_store_server)
    THEN [ evaluated |-> <<"rule1", "rule2">>,
           errors |-> << OptionsError(<< "The ", "--remote-execution-server",
                                         " option requires also setting ",
                                         "--remote-store-server",
                                         ". Often these have the same value." >>) >> ]
    ELSE [ evaluated |-> <<"rule1", "rule2">>, errors |-> <<>> ]

\* validate_instance collecting the errors of both checks instead of raising at
\* the first.
validate_instance_collecting(o) ==
    LET e1 == IF IsSet(o.remote_execution) /\ ~IsSet(o.remote_execution_server)
              THEN << OptionsError(<< "The ", "--remote-execution",
                                      " option requires also setting ",
                                      "--remote-execution-server",
                                      " to work properly." >>) >>
              ELSE <<>>
        e2 == IF IsSet(o.remote_execution_server) /\ ~IsSet(o.remote_store_server)
              THEN << OptionsError(<< "The ", "--remote-execution-server",
                                      " option requires also setting ",
                                      "--remote-store-server",
                                      ". Often these have the same value." >>) >>
              ELSE <<>>
    IN  [ evaluated |-> <<"rule1", "rule2">>, errors |-> e1 \o e2 ]

\* validate_instance whose second check does not look at the execution server:
\* an empty store server is an error on its own.
validate_instance_rule2_ungated(o) ==
    IF IsSet(o.remote_execution) /\ ~IsSet(o.remote_execution_server)
    THEN [ evaluated |-> <<"rule1">>,
           errors |-> << OptionsError(<< "The ", "--remote-execution",
                                         " option requires also setting ",
                                         "--remote-execution-server",
                                         " to work properly." >>) >> ]
    ELSE IF ~IsSet(o.remote_store_server)
    THEN [ evaluated |-> <<"rule1", "rule2">>,
           errors |-> << OptionsError(<< "The ", "--remote-execution-server",
                                         " option requires also setting ",
                                         "--remote-store-server",
                                         ". Often these have the same value." >>) >> ]
    ELSE [ evaluated |-> <<"rule1", "rule2">>, errors |-> <<>> ]

\* GlobalOptions.validate_instance.  "evaluated" lists the conditions the run
\* evaluated, in order; "errors" the exceptions it raised (a raise ends the run).
validate_instance(o) ==
    IF IsSet(o.remote_execution) /\ ~IsSet(o.remote_execution_server)
    THEN [ evaluated |-> <<"rule1">>,
           errors |-> << OptionsError(<< "The ", "--remote-execution",
                                         " option requires also setting ",
                                         "--remote-execution-server",
                                         " to work properly." >>) >> ]
    ELSE IF IsSet(o.remote_execution_server) /\ ~IsSet(o.remote_store_server)
    THEN [ evaluated |-> <<"rule1", "rule2">>,
           errors |-> << OptionsError(<< "The ", "--remote-execution-server",
                                         " option requires also setting ",
                                         "--remote-store-server",
                                         ". Often these have the same value." >>) >> ]
    ELSE [ evaluated |-> <<"rule1", "rule2">>, errors |-> <<>> ]

\* ------------------------------------------------------------- the record

\* A dataclass that is not frozen: the assignment goes through.
unfrozen_setattr(obj, name, value) == [obj |-> [obj EXCEPT ![name] = value], raised |-> ""]

\* @dataclass(frozen=True): assigning to a field raises FrozenInstanceError
\* and leaves the instance as it was.
frozen_setattr(obj, name, value) == [obj |-> obj, raised |-> "FrozenInstanceError"]

\* The fields whose values are lists or dicts: shared objects, held by reference.
ListFields ==
    {"remote_store_server", "remote_execution_extra_platform_properties",
     "remote_execution_headers"}

\* The heap address of the object the resolved bag holds for a list field.
AddrOf(f) ==
    CASE f = "remote_store_server" -> 1
      [] f = "remote_execution_extra_platform_properties" -> 2
      [] f = "remote_execution_headers" -> 3

\* The content of the list or dict a value denotes.
Content(v) == Deref(v, heap).l

\* ------------------------------------------------------------------ inputs

\* Values given on the command line or in a config file for the three options
\* the validator reads.
RemoteOptionInputs ==
    { [ remote_execution |-> PyBool(rx),
        remote_execution_server |-> server,
        remote_store_server |-> PyList(store) ] :
      rx \in BOOLEAN,
      server \in {None, PyStr(""), PyStr("host:1234")},
      store \in {<<>>, <<"host:5678">>} }

\* A value, other than its default, for each other option a run may set.
OtherOptionValues ==
    [ remote_store_thread_count |-> PyInt(8),
      remote_store_chunk_bytes |-> PyInt(4096),
      remote_store_chunk_upload_timeout_seconds |-> PyInt(30),
      remote_store_rpc_retries |-> PyInt(3),
      remote_store_connection_limit |-> PyInt(10),
      process_execution_local_parallelism |-> PyInt(16),
      process_execution_remote_parallelism |-> PyInt(64),
      process_execution_cleanup_local_dirs |-> PyBool(FALSE),
      process_execution_speculation_delay |-> PyFloat(2),
      process_execution_speculation_strategy |-> PyStr("remote_first"),
      process_execution_use_local_cache |-> PyBool(FALSE),
      remote_execution_process_cache_namespace |-> PyStr("ns"),
      remote_instance_name |-> PyStr("main"),
      remote_ca_certs_path |-> PyStr("/etc/ca.pem"),
      remote_oauth_bearer_token_path |-> PyStr("/etc/token"),
      remote_execution_extra_platform_properties |-> PyList(<<"os=linux">>),
      remote_execution_headers |-> PyDict(<<"x=y">>),
      remote_execution_overall_deadline_secs |-> PyInt(120),
      process_execution_local_enable_nailgun |-> PyBool(TRUE),
      pantsd |-> PyBool(FALSE),
      dynamic_ui |-> PyBool(TRUE) ]

\* The settings of one run: any combination for the three remote options,
\* nothing at all, or one other option set with remote execution off or on.
ResolveInputs ==
    RemoteOptionInputs
    \cup {<<>>}
    \cup { [ d \in {"remote_execution", x} |->
               IF d = x THEN OtherOptionValues[x] ELSE PyBool(rx) ] :
           x \in DOMAIN OtherOptionValues, rx \in BOOLEAN }

\* -------------------------------------------------------------- the machine

NoOp == [op |-> "none", field |-> "", value |-> None, raised |-> ""]

Init ==
    /\ env \in Envs
    /\ pc = "registering"
    /\ ncalls = 0
    /\ opts = <<>>
    /\ heap = <<>>
    /\ exec = <<>>
    /\ constructed = <<>>
    /\ outcome = <<>>
    /\ lastOp = NoOp
    /\ nmut = 0

\* The register calls made so far: register_options makes its calls in order,
\* and ncalls is how far the run has come.
registered == SubSeq(register_options, 1, ncalls)

\* One register call of a run of register_options, handed to the registrar.
Register ==
    /\ pc = "registering"
    /\ ncalls < Len(register_options)
    /\ LET call == register_options[ncalls + 1]
       IN  /\ ncalls' = ncalls + 1
           /\ pc' = IF IsDuplicate(registered, call) THEN "schema_error"
                    ELSE IF ncalls + 1 = Len(register_options) THEN "registered"
                    ELSE "registering"
    /\ UNCHANGED <<env, opts, heap, exec, constructed, outcome, lastOp, nmut>>

\* Option resolution (the option parser): every registered option gets the
\* value given for it, or else its declared default.  List and dict values of
\* the execution options are objects on the heap, held by reference.
ResolveWith(inputs) ==
    /\ pc = "registered"
    /\ \E given \in inputs :
         LET dests == {Dest(c) : c \in Range(registered)}
             value == [ d \in dests |->
                          IF d \in DOMAIN given THEN given[d]
                          ELSE DefaultOf(CallOf(registered, d)) ]
         IN  /\ heap' = [ a \in 1..3 |->
                            value[CHOOSE f \in ListFields : AddrOf(f) = a] ]
             /\ opts' = [ d \in dests |->
                            IF d \in ListFields THEN Ref(AddrOf(d)) ELSE value[d] ]
    /\ pc' = "resolved"
    /\ UNCHANGED <<env, ncalls, exec, constructed, outcome, lastOp, nmut>>

\* Resolution of a run with any of the settings above.
Resolve == ResolveWith(ResolveInputs)

\* Resolution of a run that sets the remote options only.
ResolveRemote == ResolveWith(RemoteOptionInputs)

\* ExecutionOptions.from_bootstrap_options(opts): the record is built once.
\* "constructed" remembers the record, and the content of the objects it
\* holds, as they were at construction.
Project ==
    /\ pc = "resolved"
    /\ exec = <<>>
    /\ LET record == from_bootstrap_options(opts)
       IN  /\ exec' = <<record>>
           /\ constructed' = << [ record |-> record,
                                  content |-> [f \in ListFields |-> Content(record[f])] ] >>
    /\ UNCHANGED <<env, pc, ncalls, opts, heap, outcome, lastOp, nmut>>

\* GlobalOptions.validate_instance(opts), run once on the resolved bag.
Validate ==
    /\ pc = "resolved"
    /\ outcome = <<>>
    /\ outcome' = <<validate_instance(opts)>>
    /\ UNCHANGED <<env, pc, ncalls, opts, heap, exec, constructed, lastOp, nmut>>

\* A worker reads a field of the record.
Read ==
    /\ exec # <<>>
    /\ \E f \in FieldNames :
         lastOp' = [op |-> "read", field |-> f, value |-> exec[1][f], raised |-> ""]
    /\ UNCHANGED <<env, pc, ncalls, opts, heap, exec, constructed, outcome, nmut>>

\* Some code attempts record.f = v.
Assign ==
    /\ exec # <<>>
    /\ \E f \in FieldNames, v \in {PyStr("changed")} :
         LET r == frozen_setattr(exec[1], f, v)
         IN  /\ exec' = <<r.obj>>
             /\ lastOp' = [op |-> "setattr", field |-> f, value |-> v, raised |-> r.raised]
    /\ UNCHANGED <<env, pc, ncalls, opts, heap, constructed, outcome, nmut>>

\* The holder of the bootstrap values mutates one of their lists or dicts in
\* place (opts.f.append(x), opts.f[k] = v).
MutateSource ==
    /\ pc = "resolved"
    /\ nmut < MaxMutations
    /\ \E f \in ListFields :
         /\ heap' = [heap EXCEPT ![opts[f].i].l = Append(@, "added=later")]
         /\ lastOp' = [op |-> "mutate_source", field |-> f, value |-> None, raised |-> ""]
    /\ nmut' = nmut + 1
    /\ UNCHANGED <<env, pc, ncalls, opts, exec, constructed, outcome>>

\* A holder of the record mutates, in place, a list or dict reached through it
\* (record.f.append(x)): no field is assigned, so the frozen dataclass allows it.
MutateThroughRecord ==
    /\ exec # <<>>
    /\ nmut < MaxMutations
    /\ \E f \in ListFields :
         /\ exec[1][f].t = "ref"
         /\ heap' = [heap EXCEPT ![exec[1][f].i].l = Append(@, "added=later")]
         /\ lastOp' = [op |-> "mutate_record", field |-> f, value |-> None, raised |-> ""]
    /\ nmut' = nmut + 1
    /\ UNCHANGED <<env, pc, ncalls, opts, exec, constructed, outcome>>

\* Some code constructs a member of a behavior enum from a string, cls(s), as
\* the option parser does with the values given for enum-typed options.
ConstructEnum ==
    /\ pc = "registered"
    /\ \E cls \in BehaviorEnums, s \in EnumInputs :
         LET r == EnumCall(cls, s)
         IN  lastOp' = [op |-> "construct", field |-> cls, value |-> PyStr(s),
                        raised |-> r.raised, result |-> r.member]
    /\ UNCHANGED <<env, pc, ncalls, opts, heap, exec, constructed, outcome, nmut>>

\* Some code calls member.to_glob_match_error_behavior() on the member just
\* constructed, whatever its class.
ConvertEnum ==
    /\ lastOp.op = "construct"
    /\ lastOp.raised = ""
    /\ LET r == to_glob_match_error_behavior(lastOp.result)
       IN  lastOp' = [op |-> "convert", field |-> lastOp.field, value |-> lastOp.result,
                      raised |-> r.raised, result |-> r.member]
    /\ UNCHANGED <<env, pc, ncalls, opts, heap, exec, constructed, outcome, nmut>>

\* The startup flow: register, resolve, project, validate.
Next ==
    \/ Register
    \/ Resolve
    \/ Project
    \/ Validate

Spec == Init /\ [][Next]_vars

\* The life of the record: after the projection, workers read it while other
\* code tries to assign its fields or mutates the lists it shares.
NextRecord ==
    \/ Register
    \/ ResolveRemote
    \/ Project
    \/ Read
    \/ Assign
    \/ MutateSource
    \/ MutateThroughRecord

SpecRecord == Init /\ [][NextRecord]_vars

\* The behavior enums: once the schema is registered, members are constructed
\* from strings and converted.
NextEnum ==
    \/ Register
    \/ ConstructEnum
    \/ ConvertEnum

SpecEnum == Init /\ [][NextEnum]_vars

\* -------------------------------------------------------------- properties

\* The result of the validation run, once it has happened.
Validated == outcome # <<>>
Rejected == Validated /\ outcome[1].errors # <<>>

\* The conditions of the two rules, on the resolved bag.
Rule1Broken == IsSet(opts.remote_execution) /\ ~IsSet(opts.remote_execution_server)
Rule2Broken == IsSet(opts.remote_execution_server) /\ ~IsSet(opts.remote_store_server)

\* C1: a bag with remote_execution on and remote_execution_server unset (None
\* or "") is rejected with an OptionsError that names --remote-execution and
\* --remote-execution-server.
C1_MissingExecutionServerRejected ==
    (Validated /\ Rule1Broken) =>
        /\ Len(outcome[1].errors) = 1
        /\ outcome[1].errors[1].kind = "OptionsError"
        /\ Mentions(outcome[1].errors[1], FlagOf("remote_execution"))
        /\ Mentions(outcome[1].errors[1], FlagOf("remote_execution_server"))

\* Scenario A has been validated: remote execution on, the server "".
C1_Witness ==
    /\ Rejected
    /\ opts.remote_execution = PyBool(TRUE)
    /\ opts.remote_execution_server = PyStr("")

\* C2: a bag with remote_execution_server set and remote_store_server empty is
\* rejected with an OptionsError that names --remote-store-server, whether
\* remote_execution is on or off.
C2_MissingStoreServerRejected ==
    (Validated /\ Rule2Broken) =>
        /\ Len(outcome[1].errors) = 1
        /\ outcome[1].errors[1].kind = "OptionsError"
        /\ Mentions(outcome[1].errors[1], FlagOf("remote_store_server"))

\* Scenario B with remote execution off has been validated.
C2_Witness ==
    /\ Rejected
    /\ opts.remote_execution = PyBool(FALSE)
    /\ opts.remote_execution_server = PyStr("host:1234")
    /\ Content(opts.remote_store_server) = <<>>

\* C3: a bag is accepted exactly when (remote_execution on implies
\* remote_execution_server set) and (remote_execution_server set implies
\* remote_store_server non-empty); nothing but these three options decides.
C3_AcceptedIff ==
    Validated =>
        ( outcome[1].errors = <<>>
          <=> /\ IsSet(opts.remote_execution) => IsSet(opts.remote_execution_server)
              /\ IsSet(opts.remote_execution_server) => IsSet(opts.remote_store_server) )

\* Scenario D has been validated and accepted.
C3_Witness ==
    /\ Validated
    /\ ~Rejected
    /\ opts.remote_execution = PyBool(TRUE)
    /\ opts.remote_execution_server = PyStr("host:1234")
    /\ Content(opts.remote_store_server) = <<"host:5678">>

\* C4: a validation run evaluates rule 1 first, stops at the first rule that
\* fails (rule 2 is not evaluated once rule 1 has failed) and reports at most
\* one error.
C4_FailFast ==
    Validated =>
        /\ Len(outcome[1].errors) <= 1
        /\ outcome[1].evaluated[1] = "rule1"
        /\ Rule1Broken => outcome[1].evaluated = <<"rule1">>
        /\ ~Rule1Broken => outcome[1].evaluated = <<"rule1", "rule2">>

\* Rule 1 has failed on a bag that has no store server either.
C4_Witness ==
    /\ Rejected
    /\ Rule1Broken
    /\ Content(opts.remote_store_server) = <<>>
    /\ outcome[1].evaluated = <<"rule1">>

\* C5: in a run of register_options the calls of register_bootstrap_options
\* are a complete prefix: no option of the full set alone is registered before
\* all bootstrap options are, and every bootstrap option is registered and
\* resolves like any other global option.
C5_BootstrapPrefix ==
    LET nb == Len(register_bootstrap_options)
        bootstrap == Range(register_bootstrap_options)
    IN  /\ \A k \in DOMAIN registered :
             registered[k] \notin bootstrap =>
                 /\ k > nb
                 /\ SubSeq(registered, 1, nb) = register_bootstrap_options
        /\ pc \in {"registered", "resolved"} => bootstrap \subseteq Range(registered)
        /\ pc = "resolved" => \A c \in bootstrap : Dest(c) \in DOMAIN opts

\* The first option of the full set alone has just been registered.
C5_Witness ==
    /\ pc = "registering"
    /\ ncalls = Len(register_bootstrap_options) + 1
    /\ registered[ncalls] \notin Range(register_bootstrap_options)

RECURSIVE NameCount(_)
\* How many names the calls of a sequence pass to register.
NameCount(calls) ==
    IF calls = <<>> THEN 0 ELSE Len(Head(calls).names) + NameCount(Tail(calls))

\* C6: no name, long or short, is passed to register twice in a run of
\* register_options, and the registrar never reports a duplicate.
C6_NoDuplicateNames ==
    /\ pc # "schema_error"
    /\ Cardinality(NamesOf(registered)) = NameCount(registered)

\* The run has made all its calls, the two with a short alias included.
C6_Witness ==
    /\ pc = "registered"
    /\ ncalls = Len(register_options)
    /\ {<<"-", "l">>, <<"-", "d">>} \subseteq NamesOf(registered)

\* C7: the record from_bootstrap_options returns has the 22 fields of
\* ExecutionOptions, each equal to the attribute of the same name of its input.
C7_FieldByFieldCopy ==
    exec # <<>> =>
        /\ DOMAIN exec[1] = FieldNames
        /\ Cardinality(FieldNames) = Len(ExecutionOptionsFields)
        /\ \A f \in FieldNames : exec[1][f] = opts[f]

\* A record has been projected from a bag whose thread count is not the default.
C7_Witness ==
    /\ exec # <<>>
    /\ opts.remote_store_thread_count = PyInt(8)
    /\ exec[1].remote_store_thread_count = PyInt(8)

\* C8: once constructed, the record keeps the value of every field: an
\* assignment to a field is rejected with FrozenInstanceError and changes
\* nothing, and every read returns what the field held at construction (the
\* same object; with the same content as long as the run has only read the
\* record and tried to assign its fields).
C8_FieldsNeverChange ==
    exec # <<>> =>
        /\ exec[1] = constructed[1].record
        /\ lastOp.op = "read" => lastOp.value = constructed[1].record[lastOp.field]
        /\ lastOp.op = "setattr" => lastOp.raised = "FrozenInstanceError"
        /\ nmut = 0 =>
             \A f \in ListFields : Content(exec[1][f]) = constructed[1].content[f]

\* An assignment to a field of the record has been attempted.
C8_Witness ==
    /\ exec # <<>>
    /\ lastOp.op = "setattr"
    /\ lastOp.raised = "FrozenInstanceError"

\* C9: the record holds its lists and dicts by value: an in-place mutation
\* made through the bootstrap values does not change the content the record
\* holds, and one made through the record does not change the content the
\* bootstrap values hold.
C9_ListsCopiedByValue ==
    [][ \A f \in ListFields :
          exec # <<>> =>
            /\ (MutateSource => Content(exec[1][f])' = Content(exec[1][f]))
            /\ (MutateThroughRecord => Content(opts[f])' = Content(opts[f])) ]_vars

\* Every resolved option has its declared default.
AllDefaults ==
    /\ pc = "resolved"
    /\ \A d \in DOMAIN opts : PyEq(opts[d], DefaultOf(CallOf(registered, d)), heap)

\* C10: for every field of ExecutionOptions the default register_bootstrap_options
\* declares for the option of that name (None when it declares none) equals the
\* field of DEFAULT_EXECUTION_OPTIONS, so the record projected from an
\* all-defaults bag equals DEFAULT_EXECUTION_OPTIONS field by field.
C10_DefaultsConsistent ==
    /\ \A f \in FieldNames :
         PyEq(DefaultOf(CallOf(register_bootstrap_options, f)),
              DEFAULT_EXECUTION_OPTIONS[f], heap)
    /\ (exec # <<>> /\ AllDefaults) =>
         \A f \in FieldNames : PyEq(exec[1][f], DEFAULT_EXECUTION_OPTIONS[f], heap)

\* A record has been projected from a bag in which every option has its default.
C10_Witness ==
    /\ exec # <<>>
    /\ AllDefaults

\* C11: the default of the registered option
\* --process-execution-speculation-strategy is local_first, as the option's
\* own help text states.
C11_StrategyDefaultLocalFirst ==
    /\ \A c \in Range(registered) :
         Dest(c) = "process_execution_speculation_strategy"
             => DefaultOf(c) = PyStr(speculation_strategy_help_default)
    /\ AllDefaults =>
         opts.process_execution_speculation_strategy
             = PyStr(speculation_strategy_help_default)

\* C12: DEFAULT_EXECUTION_OPTIONS holds remote parallelism 128, chunk bytes
\* 1048576, overall deadline 3600 seconds, store thread count 1, connection
\* limit 5, RPC retries 2, speculation delay 1, speculation strategy "none",
\* local cache enabled, local sandbox cleanup enabled and nailgun disabled.
C12_DefaultValues ==
    LET d == DEFAULT_EXECUTION_OPTIONS
    IN  /\ d.process_execution_remote_parallelism = PyInt(128)
        /\ d.remote_store_chunk_bytes = PyInt(1048576)
        /\ d.remote_execution_overall_deadline_secs = PyInt(3600)
        /\ d.remote_store_thread_count = PyInt(1)
        /\ d.remote_store_connection_limit = PyInt(5)
        /\ d.remote_store_rpc_retries = PyInt(2)
        /\ d.process_execution_speculation_delay = PyInt(1)
        /\ d.process_execution_speculation_strategy = PyStr("none")
        /\ d.process_execution_use_local_cache = PyBool(TRUE)
        /\ d.process_execution_cleanup_local_dirs = PyBool(TRUE)
        /\ d.process_execution_local_enable_nailgun = PyBool(FALSE)

\* A resolved bag whose options take these values from the constant, on a host
\* with more than one processor.
C12_Witness ==
    /\ pc = "resolved"
    /\ env.cpu_count > 1
    /\ opts.process_execution_remote_parallelism
           = DEFAULT_EXECUTION_OPTIONS.process_execution_remote_parallelism
    /\ opts.remote_store_chunk_bytes = DEFAULT_EXECUTION_OPTIONS.remote_store_chunk_bytes
    /\ opts.process_execution_use_local_cache
           = DEFAULT_EXECUTION_OPTIONS.process_execution_use_local_cache

\* The declared values of the behavior enums, as the class bodies list them.
DeclaredValues(cls) ==
    IF cls = "FilesNotFoundBehavior" THEN {"warn", "error"}
    ELSE {"ignore", "warn", "error"}

Constructed == lastOp.op = "construct"
Converted == lastOp.op = "convert"

\* C13: for each of GlobMatchErrorBehavior, FilesNotFoundBehavior and
\* OwnersNotFoundBehavior, constructing a member from a string succeeds exactly
\* when the string is one of the declared member values of the type, and then
\* gives the member of that value; for every other string (FilesNotFoundBehavior
\* from "ignore" is one) it fails with the invalid-value error.
C13_ConstructExactlyDeclared ==
    Constructed =>
        /\ lastOp.raised = "" <=> lastOp.value.s \in DeclaredValues(lastOp.field)
        /\ lastOp.raised = "" =>
             /\ lastOp.result \in MembersOf(lastOp.field)
             /\ ValueOf(lastOp.result) = lastOp.value.s
        /\ lastOp.raised # "" =>
             /\ lastOp.raised = "ValueError"
             /\ lastOp.result = None
        /\ (lastOp.field = "FilesNotFoundBehavior" /\ lastOp.value.s = "ignore")
             => lastOp.raised = "ValueError"

\* FilesNotFoundBehavior("ignore") has been attempted, and has failed.
C13_Witness ==
    /\ Constructed
    /\ lastOp.field = "FilesNotFoundBehavior"
    /\ lastOp.value = PyStr("ignore")
    /\ lastOp.raised # ""

\* The members to_glob_match_error_behavior is defined on.
Convertible == MembersOf("FilesNotFoundBehavior") \cup MembersOf("OwnersNotFoundBehavior")

\* C14: to_glob_match_error_behavior is total and lossless on
\* FilesNotFoundBehavior and on OwnersNotFoundBehavior: for every declared
\* member it returns, without error, the GlobMatchErrorBehavior member of the
\* same value (warn to warn, error to error), and distinct members of a class
\* map to distinct results.
C14_ConversionTotalLossless ==
    /\ \A m \in Convertible :
         LET r == to_glob_match_error_behavior(m)
         IN  /\ r.raised = ""
             /\ r.member \in MembersOf("GlobMatchErrorBehavior")
             /\ ValueOf(r.member) = ValueOf(m)
    /\ \A m1, m2 \in Convertible :
         (m1.l = m2.l /\ m1 # m2)
             => to_glob_match_error_behavior(m1).member
                    # to_glob_match_error_behavior(m2).member
    /\ (Converted /\ lastOp.value \in Convertible) =>
         /\ lastOp.raised = ""
         /\ lastOp.result = PyEnum("GlobMatchErrorBehavior", lastOp.value.s)
         /\ lastOp.value.s \in {"warn", "error"} => lastOp.result.s = lastOp.value.s

\* FilesNotFoundBehavior.warn has been converted.
C14_Witness ==
    /\ Converted
    /\ lastOp.field = "FilesNotFoundBehavior"
    /\ lastOp.value = PyEnum("FilesNotFoundBehavior", "warn")
    /\ lastOp.result = PyEnum("GlobMatchErrorBehavior", "warn")

\* C15 as stated: neither FilesNotFoundBehavior nor OwnersNotFoundBehavior has
\* an ignore member (constructing either from "ignore" fails), so
\* to_glob_match_error_behavior never returns GlobMatchErrorBehavior.ignore.
C15_NoIgnoreMember ==
    /\ (Constructed /\ lastOp.field # "GlobMatchErrorBehavior"
            /\ lastOp.value = PyStr("ignore"))
         => lastOp.raised # ""
    /\ Converted => lastOp.result # PyEnum("GlobMatchErrorBehavior", "ignore")

\* C15: FilesNotFoundBehavior has no ignore member (it is exactly warn, error)
\* and its conversion never returns GlobMatchErrorBehavior.ignore;
\* OwnersNotFoundBehavior is ignore, warn, error, and a conversion returns
\* GlobMatchErrorBehavior.ignore exactly when it is applied to
\* OwnersNotFoundBehavior.ignore.
C15_OnlyOwnersIgnore ==
    /\ {ValueOf(m) : m \in MembersOf("FilesNotFoundBehavior")} = {"warn", "error"}
    /\ {ValueOf(m) : m \in MembersOf("OwnersNotFoundBehavior")} = {"ignore", "warn", "error"}
    /\ \A m \in Convertible :
         to_glob_match_error_behavior(m).member = PyEnum("GlobMatchErrorBehavior", "ignore")
             <=> m = PyEnum("OwnersNotFoundBehavior", "ignore")
    /\ Converted =>
         (lastOp.result = PyEnum("GlobMatchErrorBehavior", "ignore")
             <=> lastOp.value = PyEnum("OwnersNotFoundBehavior", "ignore"))

\* OwnersNotFoundBehavior.ignore has been converted, to GlobMatchErrorBehavior.ignore.
C15_Witness ==
    /\ Converted
    /\ lastOp.value = PyEnum("OwnersNotFoundBehavior", "ignore")
    /\ lastOp.result = PyEnum("GlobMatchErrorBehavior", "ignore")

\* The list-typed options registered so far, by attribute name.
ListOptions == {Dest(c) : c \in {x \in Range(registered) : x.type = "list"}}
WithMemberType == {Dest(c) : c \in {x \in Range(registered) : "member_type" \in x.given}}

\* C16 as stated: every register call made by register_bootstrap_options or
\* register_options that declares type=list also specifies member_type.
C16_ListHasMemberType ==
    \A c \in Range(registered) : c.type = "list" => "member_type" \in c.given

\* C16: a register call that specifies member_type declares type=list and
\* gives str; of the list-typed options only ignore_pants_warnings,
\* pants_ignore and streaming_workunits_handlers specify it, and the other
\* list-typed calls pass no member_type.
C16_MemberTypeOnlyOnLists ==
    /\ \A c \in Range(registered) :
         "member_type" \in c.given => (c.type = "list" /\ c.member_type = "str")
    /\ WithMemberType \subseteq
         {"ignore_pants_warnings", "pants_ignore", "streaming_workunits_handlers"}
    /\ pc = "registered" =>
         /\ WithMemberType =
              {"ignore_pants_warnings", "pants_ignore", "streaming_workunits_handlers"}
         /\ Cardinality(ListOptions \ WithMemberType) = 16

\* All calls are made: list options with member_type (pants_ignore) and
\* without it (plugins, remote_store_server) are registered.
C16_Witness ==
    /\ pc = "registered"
    /\ "pants_ignore" \in WithMemberType
    /\ {"plugins", "remote_store_server"} \subseteq ListOptions \ WithMemberType

\* The options whose type is an Enum class, and those registered with choices.
EnumTypes == {"LogLevel", "FilesNotFoundBehavior", "OwnersNotFoundBehavior"}
EnumTyped == {c \in Range(registered) : c.type \in EnumTypes}
WithChoices == {c \in Range(registered) : "choices" \in c.given}

\* C17: every registered option whose type is an enum (level,
\* files_not_found_behavior, owners_not_found_behavior) declares a default that
\* is a member of that enum, and every option registered with choices
\* (process_execution_speculation_strategy) declares a default that is one of
\* the listed choices.
C17_DefaultsInDomain ==
    /\ \A c \in EnumTyped :
         /\ "default" \in c.given
         /\ DefaultOf(c) \in MembersOf(c.type)
    /\ \A c \in WithChoices :
         /\ "default" \in c.given
         /\ DefaultOf(c).t = "str"
         /\ DefaultOf(c).s \in Range(c.choices)
    /\ pc = "registered" =>
         /\ {Dest(c) : c \in EnumTyped}
              = {"level", "files_not_found_behavior", "owners_not_found_behavior"}
         /\ {Dest(c) : c \in WithChoices} = {"process_execution_speculation_strategy"}

\* The three enum-typed options and the option with choices are registered,
\* and a run has resolved them to their defaults.
C17_Witness ==
    /\ pc = "resolved"
    /\ Cardinality(EnumTyped) = 3
    /\ Cardinality(WithChoices) = 1
    /\ opts.files_not_found_behavior = PyEnum("FilesNotFoundBehavior", "warn")
    /\ opts.process_execution_speculation_strategy = PyStr("none")

\* The validator with its two checks in the other order: the error it raises.
ErrorsRule2First(o) ==
    IF IsSet(o.remote_execution_server) /\ ~IsSet(o.remote_store_server)
    THEN << OptionsError(<< "The ", "--remote-execution-server",
                            " option requires also setting ",
                            "--remote-store-server",
                            ". Often these have the same value." >>) >>
    ELSE IF IsSet(o.remote_execution) /\ ~IsSet(o.remote_execution_server)
    THEN << OptionsError(<< "The ", "--remote-execution",
                            " option requires also setting ",
                            "--remote-execution-server",
                            " to work properly." >>) >>
    ELSE <<>>

\* The flag an error is about: the first flag its message names.
TriggerOf(error) == error.message[2]

\* C18: no resolved bag breaks both rules of the validator at once: the error of
\* rule 1 is raised only when remote_execution_server is unset and the error of
\* rule 2 only when it is set, so at most one of the two conditions holds and
\* the validator with its checks in the other order raises the same error for
\* every bag.
C18_RulesExclusive ==
    /\ pc = "resolved" => ~(Rule1Broken /\ Rule2Broken)
    /\ Validated =>
         /\ outcome[1].errors = ErrorsRule2First(opts)
         /\ Rejected =>
              /\ TriggerOf(outcome[1].errors[1]) = "--remote-execution"
                   => ~IsSet(opts.remote_execution_server)
              /\ TriggerOf(outcome[1].errors[1]) = "--remote-execution-server"
                   => IsSet(opts.remote_execution_server)
              /\ TriggerOf(outcome[1].errors[1])
                   \in {"--remote-execution", "--remote-execution-server"}

\* Remote execution is on with a server and no store: rule 1 passes and the
\* error is the one of rule 2.
C18_Witness ==
    /\ Rejected
    /\ opts.remote_execution = PyBool(TRUE)
    /\ IsSet(opts.remote_execution_server)
    /\ TriggerOf(outcome[1].errors[1]) = "--remote-execution-server"

\* A bag that holds, for every option of the full set, the name of the
\* attribute itself: what from_bootstrap_options makes of it tells which
\* attribute each field is read from.
ProbeBag == [d \in {Dest(c) : c \in Range(register_options)} |-> PyStr(d)]
AttributeRead(f) == from_bootstrap_options(ProbeBag)[f].s

\* The bootstrap phase is complete: register_bootstrap_options has made its calls.
BootstrapComplete == ncalls >= Len(register_bootstrap_options)

\* C19: each of the 22 fields of ExecutionOptions is read by
\* from_bootstrap_options from an attribute whose option
\* register_bootstrap_options registers, so every attribute the projection
\* reads is registered as soon as the bootstrap phase is complete, and none is
\* an option of the full set alone.
C19_ReadsBootstrapOnly ==
    /\ Cardinality(FieldNames) = 22
    /\ \A f \in FieldNames :
         /\ AttributeRead(f) \in {Dest(c) : c \in Range(register_bootstrap_options)}
         /\ AttributeRead(f) \notin {Dest(c) : c \in Range(full_option_calls)}
         /\ BootstrapComplete => AttributeRead(f) \in {Dest(c) : c \in Range(registered)}

\* The bootstrap phase has just been completed: no option of the full set alone
\* is registered yet, and the nailgun switch is.
C19_Witness ==
    /\ pc = "registering"
    /\ ncalls = Len(register_bootstrap_options)
    /\ "loop" \notin {Dest(c) : c \in Range(registered)}
    /\ AttributeRead("process_execution_local_enable_nailgun")
           \in {Dest(c) : c \in Range(registered)}

\* C20: the projection is independent of the validation.  Whatever the bag, and
\* whether the validator has run, accepted or rejected, from_bootstrap_options
\* can be run and its record has remote_execution and remote_execution_server
\* as the bag has them (so a record with remote execution on and no server
\* exists for a bag the validator rejects); and a run of validate_instance
\* changes neither the bag nor the record.
C20_ProjectionIndependent ==
    /\ []((pc = "resolved" /\ exec = <<>>) => ENABLED Project)
    /\ [](exec # <<>> =>
            /\ DOMAIN exec[1] = FieldNames
            /\ exec[1].remote_execution = opts.remote_execution
            /\ exec[1].remote_execution_server = opts.remote_execution_server)
    /\ [][outcome' # outcome =>
            (opts' = opts /\ heap' = heap /\ exec' = exec /\ constructed' = constructed)]_vars

\* Before the validator has run, a record exists with remote execution on and
\* no execution server.
C20_Witness ==
    /\ exec # <<>>
    /\ outcome = <<>>
    /\ exec[1].remote_execution = PyBool(TRUE)
    /\ exec[1].remote_execution_server = None
    /\ validate_instance(opts).errors # <<>>

====
